---- MODULE Spec2Model ----
(***************************************************************************)
(* A model of rust-vobject (src/vobject/lib.rs): the escaping and folding  *)
(* transforms, the Component/Property data model, the PEG grammar and the  *)
(* serializer.  Text is a sequence of one-character strings.               *)
(***************************************************************************)
EXTENDS FiniteSets, Integers, Sequences, TLC

VARIABLES pc, s, rv, rv2, property, comp, log, tree, out, tree2

vars == <<pc, s, rv, rv2, property, comp, log, tree, out, tree2>>

\* ------------------------------------------------------------------ text
CR == "\r"
LF == "\n"
SP == " "
TAB == "\t"
BSL == "\\"
DQ == "\""
CRLF == <<CR, LF>>
Null == <<>>

\* str::replace: for each match of from, found scanning left to right past
\* the previous match, the text before it and then to; at last the rest.
\* ReplaceFrom is the result for the text from position i on.
RECURSIVE ReplaceFrom(_, _, _, _)
ReplaceFrom(t, from, to, i) ==
    LET AtMatch(m) ==
            IF m = 0 THEN SubSeq(t, i, Len(t))
            ELSE SubSeq(t, i, m - 1) \o to \o ReplaceFrom(t, from, to, m + Len(from))
        FirstOf(matches) ==
            IF matches = {} THEN 0
            ELSE CHOOSE m \in matches : \A k \in matches : m <= k
    IN  AtMatch(FirstOf({j \in i..(Len(t) - Len(from) + 1) :
                            SubSeq(t, j, j + Len(from) - 1) = from}))

replace(t, from, to) == ReplaceFrom(t, from, to, 1)

\* ------------------------------------------------------- escaping engine
escape_chars(t) ==
    LET a == replace(t, <<BSL, "N">>, <<LF>>)
        b == replace(a, <<BSL>>, <<BSL, BSL>>)
        c == replace(b, <<";">>, <<BSL, ";">>)
        d == replace(c, <<",">>, <<BSL, ",">>)
        e == replace(d, <<CR, LF>>, <<BSL, "n">>)
    IN  replace(e, <<LF>>, <<BSL, "n">>)

unescape_chars(t) ==
    LET a == replace(t, <<BSL, "N">>, <<BSL, "n">>)
        b == replace(a, <<CR, LF>>, <<LF>>)
        c == replace(b, <<BSL, "n">>, <<LF>>)
        d == replace(c, <<BSL, ",">>, <<",">>)
        e == replace(d, <<BSL, ";">>, <<";">>)
    IN  replace(e, <<BSL, BSL>>, <<BSL>>)

\* ------------------------------------------------- line folder / unfolder
FoldWidth == 75

unfold_lines_lf_first(t) ==
    LET a == replace(replace(t, <<LF, SP>>, <<>>), <<LF, TAB>>, <<>>)
        b == replace(replace(a, <<CR, LF, SP>>, <<>>), <<CR, LF, TAB>>, <<>>)
    IN  replace(replace(b, <<CR, SP>>, <<>>), <<CR, TAB>>, <<>>)

unfold_lines_no_cr_tab(t) ==
    LET a == replace(replace(t, <<CR, LF, SP>>, <<>>), <<CR, LF, TAB>>, <<>>)
        b == replace(replace(a, <<LF, SP>>, <<>>), <<LF, TAB>>, <<>>)
    IN  replace(b, <<CR, SP>>, <<>>)

unfold_lines(t) ==
    LET a == replace(replace(t, <<CR, LF, SP>>, <<>>), <<CR, LF, TAB>>, <<>>)
        b == replace(replace(a, <<LF, SP>>, <<>>), <<LF, TAB>>, <<>>)
    IN  replace(replace(b, <<CR, SP>>, <<>>), <<CR, TAB>>, <<>>)

\* for (i, c) in s.chars().enumerate(), i counting from 0: Pushed(lo, hi) is
\* what the iterations lo .. hi - 1 push onto rv
fold_line(t) ==
    LET Body(i) ==
            <<t[i + 1]>> \o (IF i # 0 /\ i % FoldWidth = 0 THEN <<CR, LF, SP>> ELSE <<>>)
        RECURSIVE Pushed(_, _)
        Pushed(lo, hi) ==
            IF lo >= hi THEN <<>>
            ELSE IF lo + 1 = hi THEN Body(lo)
            ELSE LET mid == (lo + hi) \div 2
                 IN  Pushed(lo, mid) \o Pushed(mid, hi)
    IN  Pushed(0, Len(t))

\* ------------------------------------------------------------- Property
NoParams == <<>>
None == <<>>
Some(x) == <<x>>

Property_new(value) ==
    [params |-> NoParams, raw_value |-> escape_chars(value), prop_group |-> None]

value_as_string(p) == unescape_chars(p.raw_value)

\* ------------------------------------------------------------ Component
\* a HashMap is a function on its set of keys; the empty map is <<>>
Component_new(name) == [name |-> name, props |-> <<>>, subcomponents |-> <<>>]

single_prop_first(c, key) ==
    IF key \in DOMAIN c.props
    THEN IF Len(c.props[key]) >= 1 THEN Some(c.props[key][1]) ELSE None
    ELSE None

single_prop(c, key) ==
    IF key \in DOMAIN c.props
    THEN IF Len(c.props[key]) = 1 THEN Some(c.props[key][1]) ELSE None
    ELSE None

\* the component after all_props_mut(key): the entry exists
all_props_mut(c, key) ==
    IF key \in DOMAIN c.props THEN c
    ELSE [c EXCEPT !.props = @ @@ (key :> <<>>)]

\* the component after all_props_mut(key).push(p)
all_props_mut_push(c, key, p) ==
    [all_props_mut(c, key) EXCEPT !.props[key] = Append(@, p)]

all_props(c, key) == IF key \in DOMAIN c.props THEN c.props[key] ELSE <<>>

\* ------------------------------------------------------------ serializer
\* the orders in which a HashMap with key set S may be iterated
Orders(S) == {o \in [1..Cardinality(S) -> S] : \A k \in S : \E i \in DOMAIN o : o[i] = k}

\* the texts made of one text of each set of the sequence choices, in order
RECURSIVE ConcatAll(_)
ConcatAll(choices) ==
    IF choices = <<>> THEN {<<>>}
    ELSE {a \o b : a \in Head(choices), b \in ConcatAll(Tail(choices))}

\* the texts of a sequence, one after the other
RECURSIVE Flatten(_)
Flatten(texts) == IF texts = <<>> THEN <<>> ELSE Head(texts) \o Flatten(Tail(texts))

\* the line written for one property, for each iteration order of its params
write_prop(prop_name, p) ==
    LET group == IF p.prop_group = None THEN <<>> ELSE p.prop_group[1] \o <<".">>
        Param(k) == <<";">> \o k \o <<"=">> \o p.params[k]
    IN  {group \o prop_name
            \o Flatten([i \in DOMAIN o |-> Param(o[i])])
            \o <<":">> \o fold_line(p.raw_value) \o CRLF
         : o \in Orders(DOMAIN p.params)}

\* what inner appends to buf, for each iteration order of the maps
RECURSIVE inner(_)
inner(c) ==
    LET Bucket(k) == ConcatAll([j \in DOMAIN c.props[k] |-> write_prop(k, c.props[k][j])])
        Props == UNION {ConcatAll([i \in DOMAIN o |-> Bucket(o[i])]) : o \in Orders(DOMAIN c.props)}
        Subs == ConcatAll([i \in DOMAIN c.subcomponents |-> inner(c.subcomponents[i])])
    IN  {<<"B", "E", "G", "I", "N", ":">> \o c.name \o CRLF
            \o ps \o cs
            \o <<"E", "N", "D", ":">> \o c.name \o CRLF
         : ps \in Props, cs \in Subs}

\* the set of texts write_component may return
write_component(c) == inner(c)

\* --------------------------------------------------------------- grammar
Matched(p, v) == [ok |-> TRUE, pos |-> p, val |-> v]
Failed == [ok |-> FALSE, pos |-> 0, val |-> <<>>]

\* a literal "w" at position i
lit(t, i, w) == i + Len(w) - 1 <= Len(t) /\ SubSeq(t, i, i + Len(w) - 1) = w

\* the end of the longest run of characters of a class that starts at i;
\* outside holds the positions of t whose character is not of the class
RunEnd(t, i, outside) ==
    LET stops == {j \in outside : j >= i}
    IN  IF stops = {} THEN Len(t) + 1
        ELSE CHOOSE j \in stops : \A k \in stops : j <= k

Letters == {"a", "b", "c", "d", "e", "f", "g", "h", "i", "j", "k", "l", "m",
            "n", "o", "p", "q", "r", "s", "t", "u", "v", "w", "x", "y", "z",
            "A", "B", "C", "D", "E", "F", "G", "H", "I", "J", "K", "L", "M",
            "N", "O", "P", "Q", "R", "S", "T", "U", "V", "W", "X", "Y", "Z"}
Digits == {"0", "1", "2", "3", "4", "5", "6", "7", "8", "9"}

\* [\u{00}-\u{1F}] / "\u{7F}": the control characters that texts here hold
ctl(c) == c \in {CR, LF, TAB}

dquote(c) == c = DQ

eol(t, i) ==
    IF lit(t, i, <<CR, LF>>) THEN Matched(i + 2, Null)
    ELSE IF lit(t, i, <<LF>>) THEN Matched(i + 1, Null)
    ELSE IF lit(t, i, <<CR>>) THEN Matched(i + 1, Null)
    ELSE Failed

\* eol+
RECURSIVE eols(_, _)
eols(t, i) ==
    LET Rest(e, more) == IF more.ok THEN more ELSE Matched(e.pos, Null)
        First(e) == IF ~e.ok THEN Failed ELSE Rest(e, eols(t, e.pos))
    IN  First(eol(t, i))

whitespace(t, i) ==
    IF lit(t, i, <<SP>>) \/ lit(t, i, <<TAB>>) THEN Matched(i + 1, Null) ELSE Failed

\* __ = (eol / whitespace)*: the position after it
RECURSIVE rule__(_, _)
rule__(t, i) ==
    LET Choice(e, w) ==
            IF e.ok THEN rule__(t, e.pos)
            ELSE IF w.ok THEN rule__(t, w.pos)
            ELSE i
    IN  Choice(eol(t, i), whitespace(t, i))

\* value_char = !eol . : eol matches at a character exactly when it is CR or LF
value_char(c) == c \notin {CR, LF}
qsafe_char(c) == ~dquote(c) /\ ~ctl(c) /\ value_char(c)
safe_char(c) == c # ";" /\ c # ":" /\ qsafe_char(c)
group_char(c) == c \in Letters \cup Digits \cup {"-"}

\* the match of a run of characters that starts at i and ends before e
Run(t, i, e, min) == IF e - i >= min THEN Matched(e, SubSeq(t, i, e - 1)) ELSE Failed

\* iana_token = ([a-zA-Z0-9] / "-")+
iana_token(t, i) == Run(t, i, RunEnd(t, i, {j \in i..Len(t) : ~group_char(t[j])}), 1)

\* value = value_char+ { match_str }
value(t, i) == Run(t, i, RunEnd(t, i, {j \in i..Len(t) : ~value_char(t[j])}), 1)

\* iana_token+: the first token takes the whole run, so a second never matches
name(t, i) == iana_token(t, i)
param_name(t, i) == iana_token(t, i)

\* group_name = group_char+ { match_str }
group_name(t, i) == Run(t, i, RunEnd(t, i, {j \in i..Len(t) : ~group_char(t[j])}), 1)

\* group = g:group_name "."
group(t, i) ==
    LET Dot(g) == IF g.ok /\ lit(t, g.pos, <<".">>) THEN Matched(g.pos + 1, g.val) ELSE Failed
    IN  Dot(group_name(t, i))

\* quoted_content = qsafe_char* { match_str }
quoted_content(t, i) == Run(t, i, RunEnd(t, i, {j \in i..Len(t) : ~qsafe_char(t[j])}), 0)

\* quoted_string = dquote x:quoted_content dquote { x }
quoted_string(t, i) ==
    LET Close(x) == IF lit(t, x.pos, <<DQ>>) THEN Matched(x.pos + 1, x.val) ELSE Failed
    IN  IF ~lit(t, i, <<DQ>>) THEN Failed ELSE Close(quoted_content(t, i + 1))

\* param_text = safe_char* { match_str }
param_text(t, i) == Run(t, i, RunEnd(t, i, {j \in i..Len(t) : ~safe_char(t[j])}), 0)

\* param_value = x:(quoted_string / param_text) { x }
param_value(t, i) ==
    LET Choice(q) == IF q.ok THEN q ELSE param_text(t, i)
    IN  Choice(quoted_string(t, i))

\* param = k:param_name v:("=" v:param_value { v })?
param(t, i) ==
    LET Pair(k, v) ==
            IF v.ok THEN Matched(v.pos, <<k.val, v.val>>)
            ELSE Matched(k.pos, <<k.val, <<>>>>)
        Value(k) ==
            IF ~k.ok THEN Failed
            ELSE Pair(k, IF lit(t, k.pos, <<"=">>) THEN param_value(t, k.pos + 1) ELSE Failed)
    IN  Value(param_name(t, i))

\* HashMap::insert
insert(m, k, v) == [x \in DOMAIN m \cup {k} |-> IF x = k THEN v ELSE m[x]]

\* rv.extend(ps): the pairs are inserted in order, a later key replaces
RECURSIVE extend(_, _)
extend(m, ps) ==
    IF ps = <<>> THEN m
    ELSE extend(insert(m, Head(ps)[1], Head(ps)[2]), Tail(ps))

\* (";" p:param {p})*
RECURSIVE param_list(_, _, _)
param_list(t, i, acc) ==
    LET More(p) == IF ~p.ok THEN Matched(i, acc) ELSE param_list(t, p.pos, Append(acc, p.val))
    IN  IF ~lit(t, i, <<";">>) THEN Matched(i, acc) ELSE More(param(t, i + 1))

params(t, i) ==
    LET Map(ps) == Matched(ps.pos, extend(NoParams, ps.val))
    IN  Map(param_list(t, i, <<>>))

\* prop = !"BEGIN:" !"END:" g:group? k:name p:params ":" v:value
prop(t, i) ==
    LET Action(g, k, p, v) ==
            IF ~v.ok THEN Failed
            ELSE Matched(v.pos,
                   <<k.val, [params |-> p.val, raw_value |-> v.val,
                             prop_group |-> IF g.ok THEN Some(g.val) ELSE None]>>)
        Value(g, k, p) ==
            IF ~lit(t, p.pos, <<":">>) THEN Failed ELSE Action(g, k, p, value(t, p.pos + 1))
        Params(g, k) == IF ~k.ok THEN Failed ELSE Value(g, k, params(t, k.pos))
        Name(g) == Params(g, name(t, IF g.ok THEN g.pos ELSE i))
    IN  IF lit(t, i, <<"B", "E", "G", "I", "N", ":">>) THEN Failed
        ELSE IF lit(t, i, <<"E", "N", "D", ":">>) THEN Failed
        ELSE Name(group(t, i))

\* the rest of prop ++ eols after a first prop: (eols prop)*
RECURSIVE props_more(_, _, _)
props_more(t, i, acc) ==
    LET More(e) == IF ~e.ok THEN Matched(i, acc) ELSE props_more(t, e.pos, Append(acc, e.val))
        Element(sep) == IF ~sep.ok THEN Matched(i, acc) ELSE More(prop(t, sep.pos))
    IN  Element(eols(t, i))

\* props = ps:prop ++ eols __
props(t, i) ==
    LET Skip(ps) == Matched(rule__(t, ps.pos), ps.val)
        More(first) == IF ~first.ok THEN Failed ELSE Skip(props_more(t, first.pos, <<first.val>>))
    IN  More(prop(t, i))

\* "BEGIN:" v:value __ / "END:" v:value __
marker_line(t, i, marker) ==
    LET Skip(v) == IF v.ok THEN Matched(rule__(t, v.pos), v.val) ELSE Failed
    IN  IF ~lit(t, i, marker) THEN Failed ELSE Skip(value(t, i + Len(marker)))

component_begin(t, i) == marker_line(t, i, <<"B", "E", "G", "I", "N", ":">>)

component_end(t, i) == marker_line(t, i, <<"E", "N", "D", ":">>)

\* for (k, v) in ps.into_iter() { rv.all_props_mut(k).push(v); }
RECURSIVE push_all(_, _)
push_all(c, ps) ==
    IF ps = <<>> THEN c
    ELSE push_all(all_props_mut_push(c, Head(ps)[1], Head(ps)[2]), Tail(ps))

\* the action of the component rule
make_component(n, cs, ps) ==
    push_all([Component_new(n) EXCEPT !.subcomponents = cs], ps)

RECURSIVE component(_, _), components(_, _), components_more(_, _, _)

\* a component rule that takes property lines after the subcomponents too
component_interleaved(t, i) ==
    LET Action(b, ps, cs, qs, e) ==
            IF ~e.ok THEN Failed
            ELSE Matched(e.pos, make_component(b.val, cs.val,
                                   ps.val \o (IF qs.ok THEN qs.val ELSE <<>>)))
        End(b, ps, cs, qs) ==
            Action(b, ps, cs, qs, component_end(t, IF qs.ok THEN qs.pos ELSE cs.pos))
        MoreProps(b, ps, cs) == End(b, ps, cs, props(t, cs.pos))
        Components(b, ps) == IF ~ps.ok THEN Failed ELSE MoreProps(b, ps, components(t, ps.pos))
        Props(b) == IF ~b.ok THEN Failed ELSE Components(b, props(t, b.pos))
    IN  Props(component_begin(t, i))

\* component = name:component_begin ps:props cs:components component_end
component(t, i) ==
    LET Action(b, ps, cs, e) ==
            IF ~e.ok THEN Failed ELSE Matched(e.pos, make_component(b.val, cs.val, ps.val))
        End(b, ps, cs) == Action(b, ps, cs, component_end(t, cs.pos))
        Components(b, ps) == IF ~ps.ok THEN Failed ELSE End(b, ps, components(t, ps.pos))
        Props(b) == IF ~b.ok THEN Failed ELSE Components(b, props(t, b.pos))
    IN  Props(component_begin(t, i))

\* the rest of component ** eols after a first component: (eols component)*
components_more(t, i, acc) ==
    LET More(e) ==
            IF ~e.ok THEN Matched(i, acc) ELSE components_more(t, e.pos, Append(acc, e.val))
        Element(sep) == IF ~sep.ok THEN Matched(i, acc) ELSE More(component(t, sep.pos))
    IN  Element(eols(t, i))

\* components = cs:component ** eols __
components(t, i) ==
    LET Skip(cs) == Matched(rule__(t, cs.pos), cs.val)
        More(first) ==
            IF ~first.ok THEN Matched(rule__(t, i), <<>>)
            ELSE Skip(components_more(t, first.pos, <<first.val>>))
    IN  More(component(t, i))

\* the public rule: Ok when component matches the whole input
parser_component(t) ==
    LET Whole(r) ==
            IF r.ok /\ r.pos = Len(t) + 1 THEN [ok |-> TRUE, val |-> r.val]
            ELSE [ok |-> FALSE, val |-> Null]
    IN  Whole(component(t, 1))

parse_component(t) == parser_component(unfold_lines(t))

\* ---------------------------------------------------------------- inputs
\* all texts over the alphabet A of length at most n
RECURSIVE TextsUpTo(_, _)
TextsUpTo(A, n) ==
    IF n = 0 THEN {<<>>}
    ELSE LET shorter == TextsUpTo(A, n - 1)
         IN  shorter \cup {Append(t, c) : t \in shorter, c \in A}

\* the first n characters of the periodic text with period p
Periodic(p, n) == [i \in 1..n |-> p[((i - 1) % Len(p)) + 1]]

MaxEscLen == 3
EscAlphabet == {BSL, "n", "N", ";", ",", "a", CR, LF}
EscInputs == TextsUpTo(EscAlphabet, MaxEscLen)

MaxFoldLen == 152
FoldPatterns == {<<"a">>, <<SP>>, <<TAB>>, <<"a", SP>>, <<SP, TAB, "a">>, <<"b", ":", ";", BSL>>}
FoldInputs == {Periodic(p, n) : p \in FoldPatterns, n \in 0..MaxFoldLen}

MaxUnfoldLen == 5
UnfoldAlphabet == {CR, LF, SP, TAB, "a"}
UnfoldInputs == TextsUpTo(UnfoldAlphabet, MaxUnfoldLen)

IsBreak(c) == c \in {CR, LF}
IsWs(c) == c \in {SP, TAB}
IsCtl(c) == c \in {CR, LF, TAB}

Idle == /\ property = Null /\ comp = Null /\ log = Null
        /\ tree = Null /\ out = Null /\ tree2 = Null

\* ------------------------------------------ escape / unescape round trip
InitEscape == /\ pc = "start" /\ s \in EscInputs /\ rv = Null /\ rv2 = Null /\ Idle

New ==
    /\ pc = "start"
    /\ property' = Property_new(s)
    /\ pc' = "new"
    /\ UNCHANGED <<s, rv, rv2, comp, log, tree, out, tree2>>

ValueAsString ==
    /\ pc = "new"
    /\ rv' = value_as_string(property)
    /\ pc' = "done"
    /\ UNCHANGED <<s, rv2, property, comp, log, tree, out, tree2>>

NextEscape == New \/ ValueAsString

SpecEscape == InitEscape /\ [][NextEscape]_vars

\* -------------------------------------------------- fold / unfold round trip
InitFold == /\ pc = "start" /\ s \in FoldInputs /\ rv = Null /\ rv2 = Null /\ Idle

Fold ==
    /\ pc = "start"
    /\ rv' = fold_line(s)
    /\ pc' = "folded"
    /\ UNCHANGED <<s, rv2, property, comp, log, tree, out, tree2>>

Unfold ==
    /\ pc = "folded"
    /\ rv2' = unfold_lines(rv)
    /\ pc' = "unfolded"
    /\ UNCHANGED <<s, rv, property, comp, log, tree, out, tree2>>

NextFold == Fold \/ Unfold

SpecFold == InitFold /\ [][NextFold]_vars

\* ------------------------------------------------------ unfolding any text
InitUnfold == /\ pc = "start" /\ s \in UnfoldInputs /\ rv = Null /\ rv2 = Null /\ Idle

UnfoldOnce ==
    /\ pc = "start"
    /\ rv' = unfold_lines(s)
    /\ pc' = "once"
    /\ UNCHANGED <<s, rv2, property, comp, log, tree, out, tree2>>

UnfoldAgain ==
    /\ pc = "once"
    /\ rv2' = unfold_lines(rv)
    /\ pc' = "twice"
    /\ UNCHANGED <<s, rv, property, comp, log, tree, out, tree2>>

NextUnfold == UnfoldOnce \/ UnfoldAgain

SpecUnfold == InitUnfold /\ [][NextUnfold]_vars

\* ------------------------------------------- accesses to one Component
MaxPushes == 4
Keys == {<<"X">>, <<"Y">>, <<"Z">>}
PushedProps == {Property_new(<<"1">>), Property_new(<<"2", ";">>)}

InitComponent ==
    /\ pc = "component" /\ comp = Component_new(<<"A">>) /\ log = <<>>
    /\ s = Null /\ rv = Null /\ rv2 = Null /\ property = Null
    /\ tree = Null /\ out = Null /\ tree2 = Null

\* all_props_mut(k), the returned vector left as it is
AllPropsMut ==
    \E k \in Keys :
        /\ comp' = all_props_mut(comp, k)
        /\ UNCHANGED <<pc, s, rv, rv2, property, log, tree, out, tree2>>

\* all_props_mut(k).push(p); log records the pushes in order
Push ==
    \E k \in Keys, p \in PushedProps :
        /\ Len(log) < MaxPushes
        /\ comp' = all_props_mut_push(comp, k, p)
        /\ log' = Append(log, <<k, p>>)
        /\ UNCHANGED <<pc, s, rv, rv2, property, tree, out, tree2>>

NextComponent == AllPropsMut \/ Push

SpecComponent == InitComponent /\ [][NextComponent]_vars

\* ------------------------------------------- parse, write, parse again
BeginA == <<"B", "E", "G", "I", "N", ":", "A">>
BeginB == <<"B", "E", "G", "I", "N", ":", "B">>
EndA == <<"E", "N", "D", ":", "A">>
EndB == <<"E", "N", "D", ":", "B">>
PropX == <<"X", ":", "1">>
PropZ == <<"Z", ":", "3">>

\* the text of a sequence of lines, each ended by CRLF
Doc(lines) == Flatten([k \in DOMAIN lines |-> lines[k] \o CRLF])

\* all sequences over the set S of length at most n
RECURSIVE SeqsUpTo(_, _)
SeqsUpTo(S, n) ==
    IF n = 0 THEN {<<>>}
    ELSE LET shorter == SeqsUpTo(S, n - 1)
         IN  shorter \cup {Append(q, x) : q \in shorter, x \in S}

\* BEGIN:A, then any lines, then an END line
MaxInnerLines == 5
InnerLines == {BeginB, EndA, EndB, PropX, PropZ}
BlockDocs ==
    {Doc(<<BeginA>> \o mid \o <<e>>) : mid \in SeqsUpTo(InnerLines, MaxInnerLines), e \in {EndA, EndB}}

\* one component with property lines that use groups, parameters with and
\* without "=", quoted parameter values, escapes, a folded line, a long value
MaxRichProps == 2
RichProps ==
    { <<"g", ".", "X", ";", "Q", ":", "2">>,
      <<"Y", ";", "P", "=", DQ, "a", ":", "b", DQ, ":", "3">>,
      <<"Y", ";", "P", "=", DQ, "a", ";", "b", DQ, ":", "4">>,
      <<"X", ";", "T", "=", "u", ";", "T", "=", "w", ":", "a", BSL, ",", "b">>,
      <<"N", ":", "a", CR, LF, SP, "b">>,
      <<"L", ":">> \o [i \in 1..(FoldWidth + 2) |-> "v"] }
RichDocs ==
    {Doc(<<BeginA>> \o mid \o <<EndA>>) : mid \in SeqsUpTo(RichProps, MaxRichProps) \ {<<>>}}

Docs == BlockDocs \cup RichDocs

Init ==
    /\ pc = "start" /\ s \in Docs
    /\ tree = Null /\ out = Null /\ tree2 = Null
    /\ rv = Null /\ rv2 = Null /\ property = Null /\ comp = Null /\ log = Null

ParseComponent ==
    /\ pc = "start"
    /\ tree' = parse_component(s)
    /\ pc' = "parsed"
    /\ UNCHANGED <<s, rv, rv2, property, comp, log, out, tree2>>

WriteComponent ==
    /\ pc = "parsed" /\ tree.ok
    /\ out' \in write_component(tree.val)
    /\ pc' = "written"
    /\ UNCHANGED <<s, rv, rv2, property, comp, log, tree, tree2>>

ParseWritten ==
    /\ pc = "written"
    /\ tree2' = parse_component(out)
    /\ pc' = "reparsed"
    /\ UNCHANGED <<s, rv, rv2, property, comp, log, tree, out>>

Next == ParseComponent \/ WriteComponent \/ ParseWritten

Spec == Init /\ [][Next]_vars

\* ================================================================ claims

\* C4: for s without control characters, unescape_chars(escape_chars(s)) = s,
\* so Property::new(s).value_as_string() = s.
C4_EscapeRoundTrip ==
    (pc = "done" /\ \A i \in 1..Len(s) : ~IsCtl(s[i])) => rv = s

\* C10: escape_chars(s) holds no raw CR and no raw LF, so the raw_value of a
\* Property built by Property::new meets fold_line's precondition.
C10_EscapedHasNoLineBreak ==
    pc \in {"new", "done"} =>
        \A i \in 1..Len(property.raw_value) : ~IsBreak(property.raw_value[i])

\* C5: for s without CR or LF, unfold_lines(fold_line(s)) = s.
C5_FoldUnfoldRoundTrip == pc = "unfolded" => rv2 = s

C5_Witness ==
    /\ pc = "unfolded" /\ rv2 = s
    /\ Len(s) = 2 * FoldWidth + 1 /\ Len(rv) = Len(s) + 6
    /\ IsWs(s[FoldWidth + 2])

\* the text C6 describes: CR LF SPACE after the characters at the 1-indexed
\* positions 75, 150, 225, ... and nowhere else
BreakAfterEvery75th(t) ==
    LET n == Len(t)
        breaks(i) == i \div FoldWidth
    IN  [j \in 1..(n + 3 * breaks(n)) |->
            LET k == (j - 1) \div (FoldWidth + 3)
                r == (j - 1) % (FoldWidth + 3)
            IN  IF r < FoldWidth THEN t[k * FoldWidth + r + 1]
                ELSE <<CR, LF, SP>>[r - FoldWidth + 1]]

\* C6: fold_line(s) is s with CR LF SPACE inserted right after the characters
\* at positions 75, 150, 225, ... so that no segment holds more than 75.
C6_FoldAfterEvery75th ==
    pc \in {"folded", "unfolded"} => rv = BreakAfterEvery75th(s)

\* a line break immediately followed by a space or tab
HasSoftBreak(t) == \E i \in 1..(Len(t) - 1) : IsBreak(t[i]) /\ IsWs(t[i + 1])

\* a line break immediately followed by two spaces or tabs
HasBreakWsWs(t) ==
    \E i \in 1..(Len(t) - 2) : IsBreak(t[i]) /\ IsWs(t[i + 1]) /\ IsWs(t[i + 2])

\* C9 as stated: for every text, unfold_lines leaves no line break followed
\* by a space or tab, and a second pass changes nothing.
C9_UnfoldLeavesNoSoftBreak ==
    /\ pc \in {"once", "twice"} => ~HasSoftBreak(rv)
    /\ pc = "twice" => rv2 = rv

\* C9 amended: the same, for texts in which no line break is immediately
\* followed by two spaces or tabs.
C9_UnfoldLeavesNoSoftBreakAmended ==
    ~HasBreakWsWs(s) =>
        /\ pc \in {"once", "twice"} => ~HasSoftBreak(rv)
        /\ pc = "twice" => rv2 = rv

C9_Witness ==
    /\ pc = "twice" /\ ~HasBreakWsWs(s) /\ HasSoftBreak(s)
    /\ s = <<CR, LF, TAB, "a", LF>> /\ rv = <<"a", LF>> /\ rv2 = rv

\* the properties pushed for key k, in push order
RECURSIVE PushesFor(_, _)
PushesFor(l, k) ==
    IF l = <<>> THEN <<>>
    ELSE (IF Head(l)[1] = k THEN <<Head(l)[2]>> ELSE <<>>) \o PushesFor(Tail(l), k)

LinesOf(t) ==
    LET ends == {i \in 1..(Len(t) - 1) : t[i] = CR /\ t[i + 1] = LF}
        End(k) == CHOOSE i \in ends : Cardinality({j \in ends : j < i}) = k - 1
        Start(k) == IF k = 1 THEN 1 ELSE End(k - 1) + 2
    IN  [k \in 1..Cardinality(ends) |-> SubSeq(t, Start(k), End(k) - 1)]

IsBeginLine(l) == lit(l, 1, <<"B", "E", "G", "I", "N", ":">>)
IsEndLine(l) == lit(l, 1, <<"E", "N", "D", ":">>)
IsPropLine(l) == ~IsBeginLine(l) /\ ~IsEndLine(l)

\* some END line names another component than the BEGIN line of the block
\* it closes; open holds the names of the blocks open before line k
RECURSIVE MismatchedEnd(_, _, _)
MismatchedEnd(lines, k, open) ==
    IF k > Len(lines) THEN FALSE
    ELSE IF IsBeginLine(lines[k])
         THEN MismatchedEnd(lines, k + 1, Append(open, SubSeq(lines[k], 7, Len(lines[k]))))
    ELSE IF IsEndLine(lines[k]) /\ open # <<>>
         THEN \/ open[Len(open)] # SubSeq(lines[k], 5, Len(lines[k]))
              \/ MismatchedEnd(lines, k + 1, SubSeq(open, 1, Len(open) - 1))
    ELSE MismatchedEnd(lines, k + 1, open)

Parsed == pc \in {"parsed", "written", "reparsed"}

\* C2: parse_component returns Err whenever the name after END: differs from
\* the name after the BEGIN: that opened the block, at any nesting depth.
C2_MismatchedEndIsRejected ==
    (Parsed /\ MismatchedEnd(LinesOf(unfold_lines(s)), 1, <<>>)) => ~tree.ok

\* C3: BEGIN:A, BEGIN:B, END:B, END:A parses to a component A with the one
\* subcomponent B and no properties on either; a block without property
\* lines is accepted.
C3_EmptyBlocksAreAccepted ==
    (Parsed /\ s \in {Doc(<<BeginA, BeginB, EndB, EndA>>), Doc(<<BeginA, EndA>>)}) =>
        /\ tree.ok
        /\ tree.val.name = <<"A">> /\ DOMAIN tree.val.props = {}
        /\ s = Doc(<<BeginA, BeginB, EndB, EndA>>) =>
              /\ Len(tree.val.subcomponents) = 1
              /\ tree.val.subcomponents[1].name = <<"B">>
              /\ DOMAIN tree.val.subcomponents[1].props = {}

InterleavedDoc == Doc(<<BeginA, PropX, BeginB, PropX, EndB, PropZ, EndA>>)

\* C8 as stated: a component in which a property line follows a nested block
\* is accepted: BEGIN:A, X:1, BEGIN:B, X:1, END:B, Z:3, END:A gives A the
\* properties X and Z and the subcomponent B.
C8_InterleavingIsAccepted ==
    (Parsed /\ s = InterleavedDoc) =>
        /\ tree.ok
        /\ DOMAIN tree.val.props = {<<"X">>, <<"Z">>}
        /\ Len(tree.val.subcomponents) = 1
        /\ tree.val.subcomponents[1].name = <<"B">>

\* a property line comes right after an END line
PropAfterEnd(lines) ==
    \E k \in 1..(Len(lines) - 1) : IsEndLine(lines[k]) /\ IsPropLine(lines[k + 1])

\* C8 amended: a document in which a property line follows the END line of
\* a block is rejected: the property lines of a component all precede its
\* subcomponents.
C8_InterleavingIsRejected ==
    (Parsed /\ PropAfterEnd(LinesOf(unfold_lines(s)))) => ~tree.ok

C8_Witness == pc = "parsed" /\ s = InterleavedDoc /\ ~tree.ok

\* the unescaped values of a bucket, in order
ValuesOf(bucket) == [i \in DOMAIN bucket |-> value_as_string(bucket[i])]

\* same name, same property names with the same unescaped values per name,
\* same subcomponents in the same order, recursively
RECURSIVE SameStructure(_, _)
SameStructure(a, b) ==
    /\ a.name = b.name
    /\ DOMAIN a.props = DOMAIN b.props
    /\ \A k \in DOMAIN a.props : ValuesOf(a.props[k]) = ValuesOf(b.props[k])
    /\ Len(a.subcomponents) = Len(b.subcomponents)
    /\ \A i \in DOMAIN a.subcomponents : SameStructure(a.subcomponents[i], b.subcomponents[i])

\* C1: when parse_component(d) succeeds with tree t, parsing
\* write_component(t) succeeds with a tree of the same structure as t.
C1_StructuralRoundTrip ==
    (pc = "reparsed" /\ tree.ok) => (tree2.ok /\ SameStructure(tree.val, tree2.val))
====
